---------------------------- MODULE Spec2Model ----------------------------
(***************************************************************************)
(* Model of deepface/modules/verification.py: verify(), its nested helper  *)
(* extract_embeddings_and_facial_areas(), __extract_faces_and_embeddings(),*)
(* find_distance() with its three metrics, and find_threshold(); and of    *)
(* the POST /video_feed handler of FlaskBackend/app.py.                    *)
(*                                                                         *)
(* Floats are fixed-point numbers in thousandths (1.0 is 1000) carried in  *)
(* a record [cls, val]; cls is "fin", "inf" or "nan", and "none" stands    *)
(* for Python's None where an Optional[float] is expected.  Python's       *)
(* 0-based indices are 1-based here, and 0 stands for an index of None.    *)
(***************************************************************************)
EXTENDS Integers, Sequences, FiniteSets, TLC

VARIABLES
    op,                 \* which public function of the module the caller calls
    pc,                 \* position of the call
    model_name,         \* argument model_name
    distance_metric,    \* argument distance_metric
    threshold,          \* argument threshold (None or a float)
    anti_spoofing,      \* argument anti_spoofing
    img1_path,          \* argument img1_path: an image, or a list
    img2_path,          \* argument img2_path
    img1_embeddings,    \* local of verify, line 181
    img1_facial_areas,
    img2_embeddings,    \* local of verify, line 182
    img2_facial_areas,
    min_distance,       \* locals of the search, line 184
    min_idx,
    min_idy,
    idx,                \* position of the two nested loops, lines 185-186
    idy,
    resp_obj,           \* what verify returned
    ret,                \* what find_distance or find_threshold returned
    error,              \* the exception the call raised
    calls,              \* history: what the call has invoked so far
    request,            \* the request POST /video_feed handles
    response            \* the response video_feed returned

vars == <<op, pc, model_name, distance_metric, threshold, anti_spoofing,
          img1_path, img2_path, img1_embeddings, img1_facial_areas,
          img2_embeddings, img2_facial_areas, min_distance, min_idx, min_idy,
          idx, idy, resp_obj, ret, error, calls, request, response>>

\* ------------------------------------------------------------------ bounds

\* dims, the output_shape of the recognition model (line 106), kept small
Dims == 2

\* the most faces detection.extract_faces returns for one image
MaxFaces == 2

\* ------------------------------------------------------------------ floats

Fin(v) == [cls |-> "fin", val |-> v]

Inf == [cls |-> "inf", val |-> 0]

NaN == [cls |-> "nan", val |-> 0]

None == [cls |-> "none", val |-> 0]

\* IEEE-754 a < b, as Python evaluates it on floats: false when either is NaN
FLt(a, b) ==
    /\ a.cls # "nan"
    /\ b.cls # "nan"
    /\ \/ a.cls = "fin" /\ b.cls = "inf"
       \/ a.cls = "fin" /\ b.cls = "fin" /\ a.val < b.val

\* IEEE-754 a <= b
FLe(a, b) ==
    /\ a.cls # "nan"
    /\ b.cls # "nan"
    /\ \/ b.cls = "inf"
       \/ a.cls = "fin" /\ b.cls = "fin" /\ a.val <= b.val

\* Python's truth value of an Optional[float]: None and 0.0 are false
Truthy(t) == ~(t.cls = "none" \/ (t.cls = "fin" /\ t.val = 0))

\* floor of the square root of n >= 0, by bisection on lo..hi
RECURSIVE IsqrtIn(_, _, _)
IsqrtIn(n, lo, hi) ==
    IF lo >= hi THEN lo
    ELSE LET mid == (lo + hi + 1) \div 2
         IN  IF mid * mid <= n THEN IsqrtIn(n, mid, hi)
             ELSE IsqrtIn(n, lo, mid - 1)

Isqrt(n) == IsqrtIn(n, 0, 4000)

\* ------------------------------------------------- embeddings and list items

\* an item of a Python list: a float (val in thousandths), a float NaN, or an int
FloatItem(v) == [ty |-> "float", val |-> v]

NaNItem == [ty |-> "nan", val |-> 0]

IntItem(v) == [ty |-> "int", val |-> v]

\* line 144 accepting ints as well: isinstance(dim, (int, float))
IsNumber(dim) == dim.ty \in {"float", "nan", "int"}

\* isinstance(dim, float), line 144
IsFloat(dim) == dim.ty \in {"float", "nan"}

HasNaN(x) == \E i \in 1..Len(x) : x[i].ty = "nan"

RECURSIVE SumTo(_, _)
\* sum of f[1..n]
SumTo(f, n) == IF n = 0 THEN 0 ELSE f[n] + SumTo(f, n - 1)

\* np.dot(a, b), in millionths
Dot(a, b) == SumTo([i \in 1..Len(a) |-> a[i].val * b[i].val], Len(a))

\* np.linalg.norm(x), in thousandths
Norm(x) == Isqrt(Dot(x, x))

\* find_cosine_distance: 1 - a / (b * c); 0/0 and any NaN operand give NaN
find_cosine_distance(source_representation, test_representation) ==
    LET a == Dot(source_representation, test_representation)
        b == Norm(source_representation)
        c == Norm(test_representation)
    IN  IF HasNaN(source_representation) \/ HasNaN(test_representation)
        THEN NaN
        ELSE IF b * c = 0 THEN NaN
        ELSE Fin(1000 - (a \div ((b * c) \div 1000)))

\* find_euclidean_distance: norm of the difference vector
find_euclidean_distance(source_representation, test_representation) ==
    LET diff == [i \in 1..Len(source_representation) |->
                    FloatItem(source_representation[i].val
                              - test_representation[i].val)]
    IN  IF HasNaN(source_representation) \/ HasNaN(test_representation)
        THEN NaN
        ELSE Fin(Norm(diff))

\* l2_normalize: x if norm == 0 else x / norm (NaN == 0 is false: x / NaN)
l2_normalize(x) ==
    LET norm == Norm(x)
    IN  IF HasNaN(x) THEN [i \in 1..Len(x) |-> NaNItem]
        ELSE IF norm = 0 THEN x
        ELSE [i \in 1..Len(x) |-> FloatItem((x[i].val * 1000) \div norm)]

\* what find_distance does instead of returning, on its else branch (line 343)
Raised == [cls |-> "raise", val |-> 0]

\* find_distance, lines 334-344: a float, or Raised for "raise ValueError"
find_distance(alpha_embedding, beta_embedding, metric) ==
    IF metric = "cosine"
    THEN find_cosine_distance(alpha_embedding, beta_embedding)
    ELSE IF metric = "euclidean"
    THEN find_euclidean_distance(alpha_embedding, beta_embedding)
    ELSE IF metric = "euclidean_l2"
    THEN find_euclidean_distance(l2_normalize(alpha_embedding),
                                 l2_normalize(beta_embedding))
    ELSE Raised

\* ------------------------------------------------------------- thresholds

\* base_threshold, line 360
base_threshold ==
    [metric \in {"cosine", "euclidean", "euclidean_l2"} |->
        CASE metric = "cosine" -> 400
          [] metric = "euclidean" -> 550
          [] metric = "euclidean_l2" -> 750]

\* one row of the thresholds dict
Row(c, e, l) ==
    [metric \in {"cosine", "euclidean", "euclidean_l2"} |->
        CASE metric = "cosine" -> c
          [] metric = "euclidean" -> e
          [] metric = "euclidean_l2" -> l]

KnownModels ==
    {"VGG-Face", "Facenet", "Facenet512", "ArcFace", "Dlib", "SFace",
     "OpenFace", "DeepFace", "DeepID", "GhostFaceNet"}

\* thresholds, lines 362-378
thresholds ==
    [m \in KnownModels |->
        CASE m = "VGG-Face" -> Row(680, 1170, 1170)
          [] m = "Facenet" -> Row(400, 10000, 800)
          [] m = "Facenet512" -> Row(300, 23560, 1040)
          [] m = "ArcFace" -> Row(680, 4150, 1130)
          [] m = "Dlib" -> Row(70, 600, 400)
          [] m = "SFace" -> Row(593, 10734, 1055)
          [] m = "OpenFace" -> Row(100, 550, 550)
          [] m = "DeepFace" -> Row(230, 64000, 640)
          [] m = "DeepID" -> Row(15, 45000, 170)
          [] m = "GhostFaceNet" -> Row(650, 35710, 1100)]

\* dict.get(key, default)
Get(d, key, default) == IF key \in DOMAIN d THEN d[key] ELSE default

\* line 380 with an empty dict as the fallback of an unknown model
find_threshold_no_base(m, metric) ==
    Fin(Get(Get(thresholds, m, [k \in {} |-> 0]), metric, 400))

\* find_threshold, line 380
find_threshold(m, metric) ==
    Fin(Get(Get(thresholds, m, base_threshold), metric, 400))

\* ------------------------------------------------------------------ inputs

\* the vector of n floats whose first k are 1.0 and whose others are 0.0
Ones(n, k) == [i \in 1..n |-> FloatItem(IF i <= k THEN 1000 ELSE 0)]

\* the embeddings representation.represent returns for a face
FaceEmbeddings == {Ones(Dims, 1), Ones(Dims, Dims)}

\* lists a caller passes as pre-calculated embeddings: of the model's
\* dimension (the zero vector and one holding a NaN among them), too short,
\* too long, and holding an int
GoodLists ==
    {Ones(Dims, 0), Ones(Dims, 1),
     [i \in 1..Dims |-> FloatItem(IF i = Dims THEN 1000 ELSE 0)],
     [Ones(Dims, Dims) EXCEPT ![1] = NaNItem]}

BadLists ==
    {Ones(Dims - 1, Dims - 1), Ones(Dims + 1, 1),
     [Ones(Dims, Dims) EXCEPT ![Dims] = IntItem(1)]}

\* an img_path argument: a list, or an image (a path or an array)
ListInput(items) == [kind |-> "list", items |-> items]

ImageInput == [kind |-> "image", items |-> <<>>]

Inputs == {ImageInput} \cup {ListInput(l) : l \in GoodLists \cup BadLists}

\* no_facial_area, lines 108-115: every field None (-1 here)
no_facial_area ==
    [x |-> -1, y |-> -1, w |-> -1, h |-> -1, left_eye |-> -1, right_eye |-> -1]

\* the facial area detection reports for the k-th face of an image
DetectedArea(k) ==
    [x |-> 10 * k, y |-> 20, w |-> 30, h |-> 30, left_eye |-> -1,
     right_eye |-> -1]

\* what detection.extract_faces (line 234) does for an image: it raises a
\* ValueError, raises another exception, or returns 0..MaxFaces img_objs,
\* each with the embedding represent will find for it and an is_real flag
\* (img_obj.get("is_real", True): an absent flag reads as TRUE)
FaceSeqs ==
    UNION {[1..n -> [face : FaceEmbeddings, is_real : BOOLEAN]] :
              n \in 0..MaxFaces}

ImgObjs(fs) ==
    [k \in 1..Len(fs) |->
        [face |-> fs[k].face, facial_area |-> DetectedArea(k),
         is_real |-> fs[k].is_real]]

DetectOutcomes ==
    {[raises |-> r, img_objs |-> <<>>] : r \in {"ValueError", "Other"}}
    \cup {[raises |-> "none", img_objs |-> ImgObjs(fs)] : fs \in FaceSeqs}

\* ------------------------------------------------------------------ errors

NoError == [type |-> "none", msg |-> "", index |-> 0, cause |-> ""]

Error(type, msg, index, cause) ==
    [type |-> type, msg |-> msg, index |-> index, cause |-> cause]

\* ------------------------------------------------------- extraction adapter

\* line 246 without the anti_spoofing flag
IsSpoofUnflagged(anti, img_obj) == ~img_obj.is_real

\* the test of line 246
IsSpoof(anti, img_obj) == anti /\ ~img_obj.is_real

\* the for loop of __extract_faces_and_embeddings, lines 245-259, from the
\* k-th img_obj on
RECURSIVE FacesLoop(_, _, _, _, _)
FacesLoop(img_objs, k, anti, embeddings, facial_areas) ==
    IF k > Len(img_objs)
    THEN [raises |-> "none", cause |-> "", embeddings |-> embeddings,
          facial_areas |-> facial_areas, represents |-> k - 1]
    ELSE IF IsSpoof(anti, img_objs[k])
    THEN [raises |-> "ValueError", cause |-> "Spoof detected in given image.",
          embeddings |-> <<>>, facial_areas |-> <<>>, represents |-> k - 1]
    ELSE FacesLoop(img_objs, k + 1, anti,
                   Append(embeddings, img_objs[k].face),
                   Append(facial_areas, img_objs[k].facial_area))

\* __extract_faces_and_embeddings, lines 231-261, when extract_faces does det
ExtractFacesAndEmbeddings(det, anti) ==
    IF det.raises # "none"
    THEN [raises |-> det.raises, cause |-> "extract_faces",
          embeddings |-> <<>>, facial_areas |-> <<>>, represents |-> 0]
    ELSE FacesLoop(det.img_objs, 1, anti, <<>>, <<>>)

\* line 177 as "except Exception"
WrapsAny(type) == TRUE

\* the except clause of line 177: which exceptions it wraps
Wraps(type) == type = "ValueError"

\* the test of line 157
DimsMismatch(items) == Len(items) # Dims

\* extract_embeddings_and_facial_areas, lines 142-179
ExtractEmbeddingsAndFacialAreas(img_path, index, det, anti) ==
    IF img_path.kind = "list"
    THEN IF ~(\A i \in 1..Len(img_path.items) : IsFloat(img_path.items[i]))
         THEN [error |-> Error("ValueError", "items are not of type float",
                               index, ""),
               embeddings |-> <<>>, facial_areas |-> <<>>,
               adapter |-> FALSE, raises |-> "none", represents |-> 0]
         ELSE IF DimsMismatch(img_path.items)
         THEN [error |-> Error("ValueError", "dimensions", index, ""),
               embeddings |-> <<>>, facial_areas |-> <<>>,
               adapter |-> FALSE, raises |-> "none", represents |-> 0]
         ELSE [error |-> NoError,
               embeddings |-> <<img_path.items>>,
               facial_areas |-> <<no_facial_area>>,
               adapter |-> FALSE, raises |-> "none", represents |-> 0]
    ELSE LET r == ExtractFacesAndEmbeddings(det, anti)
         IN  [error |->
                 IF r.raises = "none" THEN NoError
                 ELSE IF Wraps(r.raises)
                 THEN Error("ValueError", "Exception while processing img_path",
                            index, r.cause)
                 ELSE Error(r.raises, r.cause, 0, ""),
              embeddings |-> r.embeddings, facial_areas |-> r.facial_areas,
              adapter |-> TRUE, raises |-> r.raises,
              represents |-> r.represents]

\* ----------------------------------------------------------- the callers

\* the recognition model verify is called with: the default of line 19
VerifyModels == {"VGG-Face"}

ModelArgs == KnownModels \cup {"unknown-model"}

MetricArgs == {"cosine", "euclidean", "euclidean_l2", "bogus"}

ThresholdArgs == {None, Fin(0), Fin(1000)}

NoResp ==
    [verified |-> FALSE, distance |-> None, threshold |-> None, model |-> "",
     similarity_metric |-> "",
     facial_areas |-> [img1 |-> no_facial_area, img2 |-> no_facial_area]]

NoCalls ==
    [adapter |-> <<>>, raises |-> <<"none", "none">>, fake |-> <<0, 0>>,
     represents |-> <<0, 0>>, pairs |-> {}, table |-> 0]

\* no request: the caller calls verification.py directly
NoRequest == [body |-> "none"]

\* video_feed has not returned
NoResponse == [status |-> 0, body |-> "", raised_at |-> 0]

\* line 184
InitialMinDistance == Inf

Locals ==
    /\ img1_embeddings = <<>>
    /\ img1_facial_areas = <<>>
    /\ img2_embeddings = <<>>
    /\ img2_facial_areas = <<>>
    /\ min_distance = InitialMinDistance
    /\ min_idx = 0
    /\ min_idy = 0
    /\ idx = 1
    /\ idy = 1
    /\ resp_obj = NoResp
    /\ ret = None
    /\ error = NoError
    /\ calls = NoCalls
    /\ response = NoResponse

InitVerify ==
    /\ op = "verify"
    /\ pc = "extract1"
    /\ model_name \in VerifyModels
    /\ distance_metric \in MetricArgs
    /\ threshold \in ThresholdArgs
    /\ anti_spoofing \in BOOLEAN
    /\ img1_path \in Inputs
    /\ img2_path \in Inputs
    /\ request = NoRequest
    /\ Locals

\* a direct call find_distance(alpha_embedding, beta_embedding, metric); the
\* two vectors are held in img1_path and img2_path
InitFindDistance ==
    /\ op = "find_distance"
    /\ pc = "call"
    /\ model_name = ""
    /\ distance_metric \in MetricArgs
    /\ threshold = None
    /\ anti_spoofing = FALSE
    /\ img1_path \in {ListInput(l) : l \in GoodLists}
    /\ img2_path \in {ListInput(l) : l \in GoodLists}
    /\ request = NoRequest
    /\ Locals

\* a direct call find_threshold(model_name, distance_metric)
InitFindThreshold ==
    /\ op = "find_threshold"
    /\ pc = "call"
    /\ model_name \in ModelArgs
    /\ distance_metric \in MetricArgs
    /\ threshold = None
    /\ anti_spoofing = FALSE
    /\ img1_path = ImageInput
    /\ img2_path = ImageInput
    /\ request = NoRequest
    /\ Locals

\* the bodies a client posts to /video_feed: not JSON, JSON without the
\* "image" key, an "image" that is no base64, base64 of bytes that are no
\* image, base64 of an image behind a data-URL prefix, and base64 of an image
RequestBodies ==
    {"not_json", "no_image", "not_base64", "not_an_image", "data_url",
     "image"}

\* a request handled by video_feed
InitVideoFeed ==
    /\ op = "video_feed"
    /\ pc = "call"
    /\ model_name = ""
    /\ distance_metric = "cosine"
    /\ threshold = None
    /\ anti_spoofing = FALSE
    /\ img1_path = ImageInput
    /\ img2_path = ImageInput
    /\ request \in {[body |-> b] : b \in RequestBodies}
    /\ Locals

Init == InitVerify \/ InitFindDistance \/ InitFindThreshold \/ InitVideoFeed

http == <<request, response>>

args == <<op, model_name, distance_metric, threshold, anti_spoofing,
          img1_path, img2_path>>

\* the index of the first img_obj flagged not real, 0 when there is none
FirstFake(img_objs) ==
    IF \E k \in 1..Len(img_objs) : ~img_objs[k].is_real
    THEN CHOOSE k \in 1..Len(img_objs) :
            /\ ~img_objs[k].is_real
            /\ \A j \in 1..(k - 1) : img_objs[j].is_real
    ELSE 0

\* what a call of extract_embeddings_and_facial_areas adds to the history
Called(index, det, r) ==
    [calls EXCEPT
        !.adapter = IF r.adapter THEN Append(@, index) ELSE @,
        !.raises[index] = r.raises,
        !.fake[index] = IF r.adapter THEN FirstFake(det.img_objs) ELSE 0,
        !.represents[index] = r.represents]

\* line 181
Extract1 ==
    /\ op = "verify"
    /\ pc = "extract1"
    /\ \E det \in IF img1_path.kind = "list"
                  THEN {[raises |-> "none", img_objs |-> <<>>]}
                  ELSE DetectOutcomes :
          LET r == ExtractEmbeddingsAndFacialAreas(img1_path, 1, det,
                                                   anti_spoofing)
          IN  /\ img1_embeddings' = r.embeddings
              /\ img1_facial_areas' = r.facial_areas
              /\ error' = r.error
              /\ pc' = IF r.error = NoError THEN "extract2" ELSE "raised"
              /\ calls' = Called(1, det, r)
    /\ UNCHANGED <<http, args, img2_embeddings, img2_facial_areas, min_distance,
                   min_idx, min_idy, idx, idy, resp_obj, ret>>

\* line 182
Extract2 ==
    /\ op = "verify"
    /\ pc = "extract2"
    /\ \E det \in IF img2_path.kind = "list"
                  THEN {[raises |-> "none", img_objs |-> <<>>]}
                  ELSE DetectOutcomes :
          LET r == ExtractEmbeddingsAndFacialAreas(img2_path, 2, det,
                                                   anti_spoofing)
          IN  /\ img2_embeddings' = r.embeddings
              /\ img2_facial_areas' = r.facial_areas
              /\ error' = r.error
              /\ pc' = IF r.error = NoError THEN "search" ELSE "raised"
              /\ calls' = Called(2, det, r)
    /\ UNCHANGED <<http, args, img1_embeddings, img1_facial_areas, min_distance,
                   min_idx, min_idy, idx, idy, resp_obj, ret>>

\* line 188 with the comparison turned round
BetterReversed(distance, min) == FLt(min, distance)

\* line 188 with <= for <: of two pairs at the same distance the later wins
BetterOrEqual(distance, min) == FLe(distance, min)

\* the test of line 188
Better(distance, min) == FLt(distance, min)

\* one pass of the inner loop body, lines 187-189, for the pair (idx, idy)
Compare ==
    /\ op = "verify"
    /\ pc = "search"
    /\ idx <= Len(img1_embeddings)
    /\ idy <= Len(img2_embeddings)
    /\ LET distance == find_distance(img1_embeddings[idx],
                                     img2_embeddings[idy], distance_metric)
       IN  /\ calls' = [calls EXCEPT !.pairs = @ \cup {<<idx, idy>>}]
           /\ IF distance = Raised
              THEN /\ pc' = "raised"
                   /\ error' = Error("ValueError",
                                     "Invalid distance_metric passed", 0, "")
                   /\ UNCHANGED <<min_distance, min_idx, min_idy, idx, idy>>
              ELSE /\ IF Better(distance, min_distance)
                      THEN /\ min_distance' = distance
                           /\ min_idx' = idx
                           /\ min_idy' = idy
                      ELSE UNCHANGED <<min_distance, min_idx, min_idy>>
                   /\ IF idy < Len(img2_embeddings)
                      THEN /\ idy' = idy + 1
                           /\ idx' = idx
                      ELSE /\ idy' = 1
                           /\ idx' = idx + 1
                   /\ UNCHANGED <<pc, error>>
    /\ UNCHANGED <<http, args, img1_embeddings, img1_facial_areas, img2_embeddings,
                   img2_facial_areas, resp_obj, ret>>

\* line 192: threshold = threshold or find_threshold(...)
UsesTable(t) == ~Truthy(t)

\* lines 195-196 falling back to the first face when the index is unset
FacialAreaOrFirst(min_i, facial_areas) ==
    IF min_i # 0 THEN facial_areas[min_i]
    ELSE IF Len(facial_areas) = 0 THEN no_facial_area
    ELSE facial_areas[1]

\* lines 195-196
FacialAreaAt(min_i, facial_areas) ==
    IF min_i = 0 THEN no_facial_area ELSE facial_areas[min_i]

\* line 202 with < for <=
VerifiedStrict(distance, t) == FLt(distance, t)

\* line 202
Verified(distance, t) == FLe(distance, t)

\* lines 192-212, once the loops are over
Finish ==
    /\ op = "verify"
    /\ pc = "search"
    /\ idx > Len(img1_embeddings) \/ Len(img2_embeddings) = 0
    /\ LET t == IF UsesTable(threshold)
                THEN find_threshold(model_name, distance_metric)
                ELSE threshold
           distance == min_distance
       IN  /\ resp_obj' =
                 [verified |-> Verified(distance, t),
                  distance |-> distance,
                  threshold |-> t,
                  model |-> model_name,
                  similarity_metric |-> distance_metric,
                  facial_areas |->
                     [img1 |-> FacialAreaAt(min_idx, img1_facial_areas),
                      img2 |-> FacialAreaAt(min_idy, img2_facial_areas)]]
           /\ calls' = [calls EXCEPT
                           !.table = IF UsesTable(threshold) THEN @ + 1 ELSE @]
    /\ pc' = "returned"
    /\ UNCHANGED <<http, args, img1_embeddings, img1_facial_areas, img2_embeddings,
                   img2_facial_areas, min_distance, min_idx, min_idy, idx, idy,
                   ret, error>>

\* a direct call of find_distance
CallFindDistance ==
    /\ op = "find_distance"
    /\ pc = "call"
    /\ LET distance == find_distance(img1_path.items, img2_path.items,
                                     distance_metric)
       IN  IF distance = Raised
           THEN /\ pc' = "raised"
                /\ error' = Error("ValueError",
                                  "Invalid distance_metric passed", 0, "")
                /\ ret' = ret
           ELSE /\ pc' = "returned"
                /\ ret' = distance
                /\ error' = error
    /\ UNCHANGED <<http, args, img1_embeddings, img1_facial_areas, img2_embeddings,
                   img2_facial_areas, min_distance, min_idx, min_idy, idx, idy,
                   resp_obj, calls>>

\* a direct call of find_threshold
CallFindThreshold ==
    /\ op = "find_threshold"
    /\ pc = "call"
    /\ ret' = find_threshold(model_name, distance_metric)
    /\ pc' = "returned"
    /\ UNCHANGED <<http, args, img1_embeddings, img1_facial_areas, img2_embeddings,
                   img2_facial_areas, min_distance, min_idx, min_idy, idx, idy,
                   resp_obj, error, calls>>

\* ------------------------------------------------- app.py: POST /video_feed

\* emotion_labels, line 88
emotion_labels ==
    <<"You are angry", "disgust", "fear", "You are happy", "You are sad",
      "surprise", "neutral">>

\* the lines of 93-103 that can raise for a request body, 0 for none:
\* request.json raises for a body that is not JSON (93); b64decode raises for
\* None and for a string with wrong padding (94) and drops the characters
\* that are not base64, a data-URL prefix among them; cv2.imdecode raises for
\* an empty buffer (96) and returns None for bytes that are no image, for
\* which cv2.resize raises (98)
RaisesAt(body) ==
    CASE body = "not_json" -> {93}
      [] body = "no_image" -> {94}
      [] body = "not_base64" -> {94, 96}
      [] body = "not_an_image" -> {98}
      [] body = "data_url" -> {94, 98}
      [] OTHER -> {0}

\* lines 114-115: except Exception as e: return str(e), 400
ExceptResponse(line) == [status |-> 400, body |-> "str(e)", raised_at |-> line]

\* lines 109-112: Response(emotion), status 200
EmotionResponse(emotion) == [status |-> 200, body |-> emotion, raised_at |-> 0]

\* what model.predict and np.argmax (lines 105-106) do: predict raises, or
\* the index of the largest of the seven predictions is returned
PredictOutcomes == {0} \cup (1..Len(emotion_labels))

\* lines 93-103: the image is read from the request, decoded and prepared
VideoFeedDecode ==
    /\ op = "video_feed"
    /\ pc = "call"
    /\ \E line \in RaisesAt(request.body) :
          IF line # 0
          THEN /\ response' = ExceptResponse(line)
               /\ pc' = "returned"
          ELSE /\ response' = response
               /\ pc' = "decoded"
    /\ UNCHANGED <<request, args, img1_embeddings, img1_facial_areas,
                   img2_embeddings, img2_facial_areas, min_distance, min_idx,
                   min_idy, idx, idy, resp_obj, ret, error, calls>>

\* lines 105-115: the prediction, the label and the response
VideoFeedPredict ==
    /\ op = "video_feed"
    /\ pc = "decoded"
    /\ \E emotion_idx \in PredictOutcomes :
          response' = IF emotion_idx = 0
                      THEN ExceptResponse(105)
                      ELSE EmotionResponse(emotion_labels[emotion_idx])
    /\ pc' = "returned"
    /\ UNCHANGED <<request, args, img1_embeddings, img1_facial_areas,
                   img2_embeddings, img2_facial_areas, min_distance, min_idx,
                   min_idy, idx, idy, resp_obj, ret, error, calls>>

Next ==
    \/ Extract1
    \/ Extract2
    \/ Compare
    \/ Finish
    \/ CallFindDistance
    \/ CallFindThreshold
    \/ VideoFeedDecode
    \/ VideoFeedPredict

Spec == Init /\ [][Next]_vars

\* ------------------------------------------------- vocabulary of the claims

Returned == op = "verify" /\ pc = "returned"

\* the metrics the docstring of verify names (lines 53-54)
Metrics == {"cosine", "euclidean", "euclidean_l2"}

Failed == op = "verify" /\ pc = "raised"

\* both inputs have been extracted without an error
Extracted == op = "verify" /\ pc \in {"search", "returned"}

N == Len(img1_embeddings)

M == Len(img2_embeddings)

Pairs == (1..N) \X (1..M)

\* the distance of every pair of embeddings, as find_distance gives it
Distances ==
    [p \in Pairs |->
        find_distance(img1_embeddings[p[1]], img2_embeddings[p[2]],
                      distance_metric)]

\* p comes before q in input1-major order
Before(p, q) == p[1] < q[1] \/ (p[1] = q[1] /\ p[2] < q[2])

\* the pairs of d whose distance is not NaN
Comparable(d) == {p \in DOMAIN d : d[p].cls # "nan"}

\* the first pair of d, in input1-major order, whose distance is dist
FirstWinner(d, dist) ==
    CHOOSE p \in DOMAIN d :
        /\ d[p] = dist
        /\ \A q \in DOMAIN d : d[q] = dist => ~Before(q, p)

\* a <= b on floats, written out
Leq(a, b) ==
    CASE a.cls = "nan" \/ b.cls = "nan" -> FALSE
      [] b.cls = "inf" -> TRUE
      [] a.cls = "inf" -> FALSE
      [] OTHER -> a.val <= b.val

\* C1: in every result of verify, verified is true exactly when the reported
\* distance is at most the reported threshold, a distance of +infinity included
C1_VerifiedIffWithinThreshold ==
    Returned =>
        (resp_obj.verified <=> Leq(resp_obj.distance, resp_obj.threshold))

\* C1 witness: a result on the boundary, its distance equal to its threshold
C1_Witness ==
    /\ Returned
    /\ resp_obj.verified
    /\ resp_obj.distance = resp_obj.threshold
    /\ threshold # None

\* C2 as stated: with N >= 1 and M >= 1 embeddings every pair is compared and
\* the reported distance is the distance of some pair, none being smaller
C2_Original ==
    (Returned /\ N >= 1 /\ M >= 1) =>
        LET d == Distances
        IN  /\ calls.pairs = Pairs
            /\ \E p \in Pairs : d[p] = resp_obj.distance
            /\ \A p \in Pairs : ~FLt(d[p], resp_obj.distance)

\* C2 amended: with N >= 1 and M >= 1 embeddings every pair is compared, no
\* pair has a smaller distance than the reported one, and the reported
\* distance is the least distance among the pairs whose distance is not NaN,
\* or +infinity when the distance of every pair is NaN
C2_MinOverComparablePairs ==
    (Returned /\ N >= 1 /\ M >= 1) =>
        LET d == Distances
        IN  /\ calls.pairs = Pairs
            /\ \A p \in Pairs : ~FLt(d[p], resp_obj.distance)
            /\ IF Comparable(d) = {}
               THEN resp_obj.distance = Inf
               ELSE \E p \in Comparable(d) : d[p] = resp_obj.distance

\* C2 witness: four pairs compared, the least distance not at the first pair
C2_Witness ==
    /\ Returned
    /\ N = 2
    /\ M = 2
    /\ calls.pairs = Pairs
    /\ Distances[<<1, 1>>] # resp_obj.distance
    /\ Distances[<<2, 2>>] = resp_obj.distance

C4_Original ==
    (Returned /\ threshold # None) =>
        /\ resp_obj.threshold = threshold
        /\ resp_obj.verified <=> Leq(resp_obj.distance, threshold)
        /\ calls.table = 0

\* C5: find_threshold never raises; it returns the tabulated constant of a
\* known model and known metric (0.30 for Facenet512 and cosine), the base
\* value of the metric (0.40, 0.55, 0.75) for an unknown model, and 0.4 for a
\* known model with an unknown metric
C5_ThresholdLookup ==
    (op = "find_threshold") =>
        /\ pc # "raised"
        /\ pc = "returned" =>
              /\ (model_name \in KnownModels /\ distance_metric \in Metrics)
                    => ret = Fin(thresholds[model_name][distance_metric])
              /\ (model_name = "Facenet512" /\ distance_metric = "cosine")
                    => ret = Fin(300)
              /\ (model_name = "VGG-Face" /\ distance_metric = "euclidean_l2")
                    => ret = Fin(1170)
              /\ (model_name \notin KnownModels /\ distance_metric = "cosine")
                    => ret = Fin(400)
              /\ (model_name \notin KnownModels
                    /\ distance_metric = "euclidean") => ret = Fin(550)
              /\ (model_name \notin KnownModels
                    /\ distance_metric = "euclidean_l2") => ret = Fin(750)
              /\ (model_name \in KnownModels /\ distance_metric \notin Metrics)
                    => ret = Fin(400)

\* C5 witness: the lookup of an unknown model with a known metric has returned
\* the base value of that metric
C5_Witness ==
    /\ op = "find_threshold"
    /\ pc = "returned"
    /\ model_name = "unknown-model"
    /\ distance_metric = "euclidean"
    /\ ret = Fin(550)

\* a list an input was given as fails one of the two checks
IsBadList(img_path) ==
    /\ img_path.kind = "list"
    /\ \/ Len(img_path.items) # Dims
       \/ \E i \in 1..Len(img_path.items) : img_path.items[i].ty = "int"

IsGoodList(img_path) == img_path.kind = "list" /\ ~IsBadList(img_path)

\* C6: a list with an item that is not a float, or of a length other than the
\* model's dimension, makes verify raise a ValueError before any distance is
\* computed and no result is returned, in either position; a list that passes
\* both checks is the single embedding of its input, its facial area the
\* sentinel, and the extraction adapter is not invoked for it
C6_PrecomputedValidated ==
    (op = "verify") =>
        /\ (IsBadList(img1_path) /\ pc # "extract1") =>
              /\ pc = "raised"
              /\ error.type = "ValueError"
              /\ error.index = 1
              /\ error.cause = ""
        /\ (IsBadList(img2_path) /\ pc \notin {"extract1", "extract2"}) =>
              /\ pc = "raised"
              /\ error.type \in {"ValueError", "Other"}
              /\ calls.raises[1] = "none" /\ ~IsBadList(img1_path) =>
                    /\ error.type = "ValueError"
                    /\ error.index = 2
                    /\ error.cause = ""
        /\ (IsBadList(img1_path) \/ IsBadList(img2_path)) =>
              /\ calls.pairs = {}
              /\ pc # "returned"
        /\ (IsGoodList(img1_path) /\ pc # "extract1") =>
              /\ img1_embeddings = <<img1_path.items>>
              /\ img1_facial_areas = <<no_facial_area>>
              /\ \A i \in 1..Len(calls.adapter) : calls.adapter[i] # 1
        /\ (IsGoodList(img2_path) /\ pc \notin {"extract1", "extract2"}
               /\ error.index # 1 /\ error.type # "Other") =>
              /\ img2_embeddings = <<img2_path.items>>
              /\ img2_facial_areas = <<no_facial_area>>
              /\ \A i \in 1..Len(calls.adapter) : calls.adapter[i] # 2

\* C6 witness: the first input an image with a face, the second a list with
\* an item that is not a float, and verify has raised for the second
C6_Witness ==
    /\ Failed
    /\ img1_path.kind = "image"
    /\ N = 1
    /\ IsBadList(img2_path)
    /\ Len(img2_path.items) = Dims
    /\ error.type = "ValueError"
    /\ error.index = 2
    /\ calls.pairs = {}

\* C7 as stated: with a metric other than cosine, euclidean and euclidean_l2
\* find_distance raises a ValueError, and verify never returns a result
C7_Original ==
    (distance_metric \notin {"cosine", "euclidean", "euclidean_l2"}) =>
        /\ op = "verify" => pc # "returned"
        /\ (op = "find_distance" /\ pc # "call") =>
              /\ pc = "raised"
              /\ error.type = "ValueError"

\* C8: when both inputs were extracted and one of them has no embedding,
\* verify does not raise: no pair is compared, both winning indices stay
\* unset, and the result reports the sentinel for both facial areas, a
\* distance of +infinity, and verified false under every finite threshold
C8_NoEmbeddings ==
    /\ (Extracted /\ (N = 0 \/ M = 0)) =>
          /\ calls.pairs = {}
          /\ min_idx = 0
          /\ min_idy = 0
          /\ idx = 1
          /\ pc = "returned" =>
                /\ resp_obj.facial_areas.img1 = no_facial_area
                /\ resp_obj.facial_areas.img2 = no_facial_area
                /\ resp_obj.distance = Inf
                /\ resp_obj.threshold.cls = "fin" => ~resp_obj.verified
    /\ (Failed /\ error.msg = "Invalid distance_metric passed") =>
          (N >= 1 /\ M >= 1)

\* C8 witness: the first input has two faces, the second none, and the result
\* reports the sentinel for both
C8_Witness ==
    /\ Returned
    /\ N = 2
    /\ M = 0
    /\ img1_path.kind = "image"
    /\ resp_obj.facial_areas.img1 = no_facial_area
    /\ resp_obj.distance = Inf
    /\ ~resp_obj.verified

\* the error that wraps a failure of the extraction of input k
IsWrapped(k) ==
    /\ error.type = "ValueError"
    /\ error.msg = "Exception while processing img_path"
    /\ error.index = k

\* no input is extracted twice, and the second only after the first
NoRetry ==
    calls.adapter \in {<<>>, <<1>>, <<2>>, <<1, 2>>}

\* C9 as stated: any failure of the extraction of an image makes verify raise
\* the error that names the input; after a failure of the first input the
\* second is never extracted; nothing is retried and no result is returned
C9_Original ==
    (op = "verify") =>
        /\ NoRetry
        /\ \A k \in {1, 2} :
              calls.raises[k] # "none" =>
                 /\ pc = "raised"
                 /\ IsWrapped(k)
        /\ calls.raises[1] # "none" =>
              /\ calls.adapter = <<1>>
              /\ calls.represents[2] = 0

\* C9 amended: a ValueError raised by the extraction of an image makes verify
\* raise the error that names the input (1 for the first, 2 for the second);
\* any other exception of the extraction leaves verify as it is, naming no
\* input; after a failure of the first input the second is never extracted;
\* nothing is retried and no result is returned
C9_ValueErrorWrapped ==
    (op = "verify") =>
        /\ NoRetry
        /\ \A k \in {1, 2} :
              /\ calls.raises[k] = "ValueError" =>
                    /\ pc = "raised"
                    /\ IsWrapped(k)
              /\ calls.raises[k] = "Other" =>
                    /\ pc = "raised"
                    /\ error.type = "Other"
                    /\ error.index = 0
        /\ calls.raises[1] # "none" =>
              /\ calls.adapter = <<1>>
              /\ calls.represents[2] = 0

\* C9 witness: the first input was extracted, the extraction of the second
\* raised a ValueError, and the error names input 2
C9_Witness ==
    /\ Failed
    /\ calls.adapter = <<1, 2>>
    /\ calls.raises = <<"none", "ValueError">>
    /\ error.cause = "extract_faces"
    /\ IsWrapped(2)

\* C10: with anti_spoofing, a face flagged not real in what detection returns
\* for an input makes verify raise, the spoof error its cause: represent was
\* called for the faces before it only, no distance is computed and no result
\* returned; without anti_spoofing such a flag never makes extraction fail
C10_SpoofDetected ==
    (op = "verify") =>
        \A k \in {1, 2} :
           /\ (anti_spoofing /\ calls.fake[k] # 0) =>
                 /\ pc = "raised"
                 /\ IsWrapped(k)
                 /\ error.cause = "Spoof detected in given image."
                 /\ calls.represents[k] = calls.fake[k] - 1
                 /\ calls.pairs = {}
           /\ ~anti_spoofing =>
                 /\ error.cause # "Spoof detected in given image."
                 /\ calls.fake[k] # 0 => calls.raises[k] = "none"

\* C10 witness: with anti_spoofing the second face of the second image is
\* flagged not real, and verify raised after one call of represent for it
C10_Witness ==
    /\ Failed
    /\ anti_spoofing
    /\ calls.fake = <<0, 2>>
    /\ calls.represents[2] = 1
    /\ error.cause = "Spoof detected in given image."

\* the labels the handler is configured with
Labels == {emotion_labels[i] : i \in 1..Len(emotion_labels)}

\* C11 as stated: a request whose image is missing, invalid or undecodable
\* gets status 400 with an error message, a failure after the image was
\* decoded gets status 500 with an error message, a classification gets
\* status 200 with one of the configured labels, and every response is one of
\* these three
C11_Original ==
    (op = "video_feed" /\ pc = "returned") =>
        /\ response.status \in {200, 400, 500}
        /\ request.body # "image" =>
              /\ response.status = 400
              /\ response.body = "str(e)"
        /\ (request.body = "image" /\ response.raised_at # 0) =>
              /\ response.status = 500
              /\ response.body = "str(e)"
        /\ (request.body = "image" /\ response.raised_at = 0) =>
              /\ response.status = 200
              /\ response.body \in Labels

=============================================================================
